---- MODULE Spec2Model ----
(***************************************************************************)
(* Timer1 step/tick scheduler of the Teacup arm firmware (timer-avr.c),    *)
(* AVR build with ACCELERATION_TEMPORAL and MOTHERBOARD defined.           *)
(*                                                                         *)
(* The 16 bit counter TCNT1 runs free.  Compare unit A (OCR1A) drives the  *)
(* step interrupt, compare unit B (OCR1B) the system tick.  Program code   *)
(* is modelled statement by statement; every frame of the call/interrupt   *)
(* stack carries the source line it is about to execute.                   *)
(***************************************************************************)
EXTENDS Integers, Sequences, FiniteSets, TLC

----------------------------------------------------------------------------
\* Program constants.

\* Range of the 16 bit counter, the literal 65536 / mask 0xFFFF of the source.
COUNTER_RANGE == 65536

\* Guard band of the large-delay trick, the literal 10000.
COUNTER_GUARD == 10000

\* Upper limit of the guard band branch, the literal 75536.
GUARD_LIMIT == 75536

\* "safe number of cpu cycles", the literal 200.
SAFE_ISR_CYCLES == 200

\* Period of the system tick in counter ticks (2 ms at 16 MHz).
TICK_TIME == 32000

----------------------------------------------------------------------------
\* Bounds of the model.

\* Number of timer_set() calls that get past the short-request test in one
\* behaviour.
MaxSets == 2

\* Number of timer_set() calls of one queue_step() invocation.
MaxTries == 2

\* Number of serviced system ticks in one behaviour.
MaxTicks == 3

\* Saturation value of the measured times since a compare match.
SinceCap == 200000

\* Delays requested by the callers of timer_set().
Delays == {150, 1000, 70000, 197842}

\* Delays requested from the step interrupt, where check_short is 1
\* (temporal acceleration: "zero or even negative").
StepDelays == {-1, 0, 150, 1000}

\* Processing times of queue_step() before it asks for the next step, in
\* counter ticks.
Jumps == {250, 65400}

----------------------------------------------------------------------------
VARIABLES
  TCCR1B,          \* 1 when the counter is clocked (CS10), 0 when stopped
  TCNT1,           \* the free running counter
  OCR1A,           \* step compare register
  OCR1B,           \* tick compare register
  TIMSK1,          \* enabled compare interrupts, subset of {OCIE1A, OCIE1B}
  TIFR1,           \* pending compare flags, subset of {OCF1A, OCF1B}
  SREG_I,          \* global interrupt enable
  next_step_time,  \* uint32_t next_step_time
  busy,            \* static busy latch of the tick ISR
  stack,           \* call / interrupt stack, bottom frame is the foreground
  nsets,           \* observer: calls of timer_set() that went on to schedule
  nticks,          \* observer: tick ISR invocations that reprogrammed OCR1B
  nclock,          \* observer: calls of clock_tick()
  since,           \* observer: ticks since the match of the previous real step
                   \*   (SinceCap: too long ago, or OCR1A is not its value)
  pend,            \* observer: ticks since OCF1A was raised, -1 when clear
  matchAt,         \* observer: when OCF1A was raised, in ticks after that match
  reqDelay,        \* observer: delay of the last timer_set() that scheduled
  reqShort,        \* observer: check_short of that call
  setAt,           \* observer: value of since when that call scheduled
  wraps,           \* observer: wrap fires since that call
  target,          \* observer: programmed match, in ticks after the anchor
  onTime,          \* observer: every compare value was written ahead of TCNT1
  armed,           \* observer: a step is scheduled and has not fired yet
  prevOCR,         \* observer: OCR1A at the previous real step
  nreal,           \* observer: real step fires
  cfg,             \* home.c: the build configuration of the homed axes
  startpoint,      \* TARGET startpoint, the axis positions in micrometres
  next_target,     \* next_target.target, the axis positions in micrometres
  t,               \* local TARGET t of the running homing routine
  hpc,             \* position of the foreground in the homing routine
  routine,         \* the homing routine that runs, "none" outside
  entry,           \* observer: startpoint and next_target at its entry
  enq,             \* observer: the moves it has passed to enqueue_home()
  queue,           \* the movement queue: moves waiting
  live,            \* the move the motion core executes, << >> for none
  nhomes,          \* observer: homing routines called
  notified,        \* observer: startpoint given to dda_new_startpoint()
  pins,            \* home.c: the endstop pins defined for each axis
  home_pc,         \* position of the foreground in home()
  homed,           \* observer: the routines home() has called, in order
  i2c_state,       \* I2C: volatile uint8_t i2c_state, as the set of its bits
  i2c_should_end,  \* volatile uint8_t i2c_should_end
  sendhead,        \* ring buffer 'send': index of the next write
  sendtail,        \* index of the next read
  sendbuf,         \* its storage
  TWCR_TWIE,       \* TWI interrupt enable
  TWCR_TWINT,      \* TWI interrupt flag: the TWI waits for the software
  TWSR,            \* TWI status
  TWDR,            \* TWI data register
  twiop,           \* what the TWI hardware is doing on the bus
  ipc,             \* position of the foreground in i2c_write()
  data,            \* parameter data of i2c_write()
  last_byte,       \* parameter last_byte of i2c_write()
  tmp,             \* the value read by i2c_state |= ...
  nwrites,         \* observer: calls of i2c_write()
  nnacks,          \* observer: transfers the bus did not acknowledge
  accepted,        \* observer: the bytes pushed to the send buffer
  txno,            \* observer: number of the transmission being written
  txOf,            \* observer: the transmission of each byte pushed
  lastPending,     \* observer: a last byte was pushed and the ISR has not
                   \*   ended that transmission yet
  wire,            \* observer: START, bytes handed to the TWI, STOP
  firsts,          \* observer: the calls whose byte begins a transmission of
                   \*   the caller (the call before had last_byte != 0)
  afterError       \* observer: the ISR flagged an error and no byte was
                   \*   pushed since

hw == << TCCR1B, TCNT1, OCR1A, OCR1B, TIMSK1, TIFR1, SREG_I >>

counts == << nsets, nticks, nclock >>

clockObs == << since, pend, matchAt >>

stepObs == << reqDelay, reqShort, setAt, wraps, target, onTime, armed,
              prevOCR, nreal >>

timerVars == << hw, next_step_time, busy, stack, counts, clockObs, stepObs >>

\* home.c
homeVars == << cfg, startpoint, next_target, t, hpc, routine, entry, enq,
               queue, live, nhomes, notified, pins, home_pc, homed >>

\* the I2C driver of timer-avr.c
i2cVars == << i2c_state, i2c_should_end, sendhead, sendtail, sendbuf,
              TWCR_TWIE, TWCR_TWINT, TWSR, TWDR, twiop, ipc, data, last_byte,
              tmp, nwrites, nnacks, accepted, txno, txOf, lastPending, wire,
              firsts, afterError >>

\* what the Timer1 code leaves alone
notTimer == << homeVars, i2cVars >>

vars == << timerVars, homeVars, i2cVars >>

----------------------------------------------------------------------------
\* Helpers.

\* (x) & 0xFFFF, also the wrap of uint16_t arithmetic
Mask16(x) == x % COUNTER_RANGE

\* uint32_t values are kept as their 32 bit pattern read as a signed number
\* (2^32 - 1 is kept as -1): the conversion from int32_t keeps the pattern,
\* an unsigned comparison orders the patterns with the negative ones on top.
ULT(a, b) ==
  \/ a >= 0 /\ b >= 0 /\ a < b
  \/ a >= 0 /\ b < 0
  \/ a < 0 /\ b < 0 /\ a < b

Frame(fn, pc) ==
  [fn |-> fn, pc |-> pc, delay |-> 0, cs |-> 0, step_start |-> 0,
   current_time |-> 0, spent |-> FALSE, tries |-> 0]

Top == stack[Len(stack)]

Goto(pc) == [stack EXCEPT ![Len(stack)].pc = pc]

Pop == SubSeq(stack, 1, Len(stack) - 1)

At(fn, pc) == Top.fn = fn /\ Top.pc = pc

Saturate(x) == IF x >= SinceCap THEN SinceCap ELSE x

\* ticks until TCNT1 next equals the compare register, 1..65536
DistA == ((OCR1A - TCNT1 - 1) % COUNTER_RANGE) + 1

DistB == ((OCR1B - TCNT1 - 1) % COUNTER_RANGE) + 1

\* the step compare interrupt is taken now
PendingA == SREG_I /\ "OCIE1A" \in TIMSK1 /\ "OCF1A" \in TIFR1

\* the tick compare interrupt is taken now, unless the step compare is
PendingB ==
  /\ SREG_I /\ "OCIE1B" \in TIMSK1 /\ "OCF1B" \in TIFR1
  /\ nticks < MaxTicks

\* program code runs only while no interrupt is to be taken
CanRun == ~PendingA /\ ~PendingB

----------------------------------------------------------------------------
\* the timer after reset, before timer_init()
TimerReset ==
  /\ TCCR1B = 0
  /\ TCNT1 = 0
  /\ OCR1A = 0
  /\ OCR1B = 0
  /\ TIMSK1 = {}
  /\ TIFR1 = {}
  /\ SREG_I = FALSE
  /\ next_step_time = 0
  /\ busy = 0
  /\ stack = << Frame("main", "reset") >>
  /\ nsets = 0
  /\ nticks = 0
  /\ nclock = 0
  /\ since = 0
  /\ pend = -1
  /\ matchAt = -1
  /\ reqDelay = -1
  /\ reqShort = 0
  /\ setAt = 0
  /\ wraps = 0
  /\ target = 0
  /\ onTime = FALSE
  /\ armed = FALSE
  /\ prevOCR = 0
  /\ nreal = 0

----------------------------------------------------------------------------
\* The places where the program spends its time: the foreground, the bodies
\* of queue_step() and dda_clock(), and the epilogue of the tick ISR.  The
\* few cycles of the other statements are counted to these places.
TimePoint ==
  \/ Top.fn = "main" /\ Top.pc \in {"run", "sei", "stopped"}
  \/ At("COMPA", "L83")
  \/ Top.fn = "COMPB" /\ Top.pc \in {"L59", "L63"}

\* The counter: d ticks pass.  A compare match raises its flag whether or
\* not the interrupt is enabled.  An interrupt that can be taken is taken at
\* its match, so time does not run past such a match.
Elapse(d) ==
  /\ TCCR1B = 1
  /\ CanRun
  /\ TimePoint
  /\ d \in 1..COUNTER_RANGE
  /\ (SREG_I /\ "OCIE1A" \in TIMSK1) => d <= DistA
  /\ (SREG_I /\ "OCIE1B" \in TIMSK1 /\ nticks < MaxTicks) => d <= DistB
  /\ TCNT1' = Mask16(TCNT1 + d)
  /\ TIFR1' = TIFR1 \cup (IF d >= DistA THEN {"OCF1A"} ELSE {})
                    \cup (IF d >= DistB THEN {"OCF1B"} ELSE {})
  /\ since' = Saturate(since + d)
  /\ pend' = IF "OCF1A" \in TIFR1 THEN Saturate(pend + d)
             ELSE IF d >= DistA THEN d - DistA
             ELSE -1
  /\ matchAt' = IF "OCF1A" \notin TIFR1 /\ d >= DistA
                THEN Saturate(since + DistA)
                ELSE matchAt
  /\ UNCHANGED << TCCR1B, OCR1A, OCR1B, TIMSK1, SREG_I, next_step_time, busy >>
  /\ UNCHANGED << counts, stepObs >>

\* time runs up to the next compare match
AdvanceToMatch ==
  /\ UNCHANGED notTimer
  /\ \E d \in {DistA} \cup
               (IF "OCIE1B" \in TIMSK1 /\ nticks < MaxTicks THEN {DistB} ELSE {}) :
        Elapse(d)
  /\ UNCHANGED stack

\* queue_step() computes for some time, once per step interrupt
AdvanceFree ==
  /\ UNCHANGED notTimer
  /\ At("COMPA", "L83")
  /\ ~Top.spent
  /\ \E d \in Jumps : Elapse(d)
  /\ stack' = [stack EXCEPT ![Len(stack)].spent = TRUE]

----------------------------------------------------------------------------
\* Foreground.

timer_init_both ==
  /\ UNCHANGED notTimer
  /\ At("main", "reset")
  /\ CanRun
  /\ TCCR1B' = 1
  /\ OCR1B' = Mask16(TICK_TIME)
  /\ TIMSK1' = {"OCIE1A", "OCIE1B"}
  /\ stack' = Goto("sei")
  /\ UNCHANGED << TCNT1, OCR1A, TIFR1, SREG_I, next_step_time, busy >>
  /\ UNCHANGED << counts, clockObs, stepObs >>

timer_init ==
  /\ UNCHANGED notTimer
  /\ At("main", "reset")
  /\ CanRun
  /\ TCCR1B' = 1
  /\ OCR1B' = Mask16(TICK_TIME)
  /\ TIMSK1' = {"OCIE1B"}
  /\ stack' = Goto("sei")
  /\ UNCHANGED << TCNT1, OCR1A, TIFR1, SREG_I, next_step_time, busy >>
  /\ UNCHANGED << counts, clockObs, stepObs >>

\* sei() of the caller, after timer_init() and after timer_set()
main_sei ==
  /\ UNCHANGED notTimer
  /\ At("main", "sei")
  /\ CanRun
  /\ SREG_I' = TRUE
  /\ stack' = Goto("run")
  /\ UNCHANGED << TCCR1B, TCNT1, OCR1A, OCR1B, TIMSK1, TIFR1, next_step_time,
                  busy >>
  /\ UNCHANGED << counts, clockObs, stepObs >>

timer_set_call_nocli(delay, check_short) ==
  /\ nsets < MaxSets
  /\ UNCHANGED << hw, next_step_time, busy, counts, clockObs, stepObs >>

\* entry of timer_set(delay, check_short): cli()
timer_set_call(delay, check_short) ==
  /\ nsets < MaxSets
  /\ SREG_I' = FALSE
  /\ UNCHANGED << TCCR1B, TCNT1, OCR1A, OCR1B, TIMSK1, TIFR1, next_step_time,
                  busy >>
  /\ UNCHANGED << counts, clockObs, stepObs >>

\* the foreground starts a move while the step timer is idle
main_timer_set ==
  /\ UNCHANGED notTimer
  /\ At("main", "run")
  /\ CanRun
  /\ "OCIE1A" \notin TIMSK1
  /\ \E d \in Delays :
       /\ timer_set_call(d, 0)
       /\ stack' = Append(Goto("sei"),
                          [Frame("timer_set", "L172") EXCEPT !.delay = d])

timer_stop_stepOnly ==
  /\ UNCHANGED notTimer
  /\ Top.fn = "main" /\ Top.pc \in {"run", "sei"}
  /\ CanRun
  /\ TIMSK1' = TIMSK1 \ {"OCIE1A"}
  /\ stack' = Goto(IF Top.pc = "run" THEN "stopped" ELSE "stopsei")
  /\ UNCHANGED << TCCR1B, TCNT1, OCR1A, OCR1B, TIFR1, SREG_I, next_step_time,
                  busy >>
  /\ UNCHANGED << counts, clockObs, stepObs >>

\* timer_stop(), called by the foreground at any time: with the interrupts
\* enabled, or before the sei() that follows timer_init() or timer_set()
timer_stop ==
  /\ UNCHANGED notTimer
  /\ Top.fn = "main" /\ Top.pc \in {"run", "sei"}
  /\ CanRun
  /\ TIMSK1' = {}
  /\ stack' = Goto(IF Top.pc = "run" THEN "stopped" ELSE "stopsei")
  /\ UNCHANGED << TCCR1B, TCNT1, OCR1A, OCR1B, TIFR1, SREG_I, next_step_time,
                  busy >>
  /\ UNCHANGED << counts, clockObs, stepObs >>

\* the caller's sei() when timer_stop() came before it
stopped_sei ==
  /\ UNCHANGED notTimer
  /\ At("main", "stopsei")
  /\ SREG_I' = TRUE
  /\ stack' = Goto("stopped")
  /\ UNCHANGED << TCCR1B, TCNT1, OCR1A, OCR1B, TIMSK1, TIFR1, next_step_time,
                  busy >>
  /\ UNCHANGED << counts, clockObs, stepObs >>

----------------------------------------------------------------------------
\* timer_set()

ChecksShort_always(check_short) == TRUE

\* if (check_short), line 176
ChecksShort(check_short) == check_short = 1

\* the short-request test of line 182, in 16 bit unsigned int arithmetic
TooShort(current_time, step_start, delay) ==
  Mask16(Mask16(current_time - step_start) + SAFE_ISR_CYCLES) > delay

TimerSetOCR_now(nst, step_start) ==
  IF ULT(nst, COUNTER_RANGE) THEN Mask16(nst + TCNT1)
  ELSE IF ULT(nst, GUARD_LIMIT) THEN Mask16(TCNT1 - COUNTER_GUARD)
  ELSE TCNT1

\* the compare value programmed by lines 192..205
TimerSetOCR(nst, step_start) ==
  IF ULT(nst, COUNTER_RANGE) THEN Mask16(nst + step_start)
  ELSE IF ULT(nst, GUARD_LIMIT) THEN Mask16(step_start - COUNTER_GUARD)
  ELSE step_start

TimerSetNST_noguard(nst) == nst

\* next_step_time after lines 192..205
TimerSetNST(nst) ==
  IF ~ULT(nst, COUNTER_RANGE) /\ ULT(nst, GUARD_LIMIT) THEN nst + COUNTER_GUARD
  ELSE nst

\* ticks from the compare value read to the compare value programmed
Offset(nst) ==
  IF ULT(nst, COUNTER_RANGE) THEN nst
  ELSE IF ULT(nst, GUARD_LIMIT) THEN COUNTER_RANGE - COUNTER_GUARD
  ELSE COUNTER_RANGE

timer_set_L172 ==
  /\ UNCHANGED notTimer
  /\ At("timer_set", "L172")
  /\ CanRun
  /\ next_step_time' = Top.delay
  /\ stack' = [stack EXCEPT ![Len(stack)].step_start = OCR1A,
                            ![Len(stack)].pc =
                               IF ChecksShort(Top.cs) THEN "L177" ELSE "L192"]
  /\ UNCHANGED << hw, busy, counts, clockObs, stepObs >>

timer_set_L177 ==
  /\ UNCHANGED notTimer
  /\ At("timer_set", "L177")
  /\ CanRun
  /\ stack' = [stack EXCEPT ![Len(stack)].current_time = TCNT1,
                            ![Len(stack)].pc =
                               IF TooShort(TCNT1, Top.step_start, Top.delay)
                               THEN "L183" ELSE "L192"]
  /\ UNCHANGED << hw, next_step_time, busy, counts, clockObs, stepObs >>

\* return to the caller; queue_step() is done once a step is scheduled
Return(r) ==
  LET caller == stack[Len(stack) - 1]
  IN  stack' = IF caller.fn = "COMPA" /\ r = 0
               THEN [Pop EXCEPT ![Len(stack) - 1].pc = "L90"]
               ELSE Pop

\* return 1;
timer_set_L183 ==
  /\ UNCHANGED notTimer
  /\ At("timer_set", "L183")
  /\ CanRun
  /\ Return(1)
  /\ UNCHANGED << hw, next_step_time, busy, counts, clockObs, stepObs >>

timer_set_L192 ==
  /\ UNCHANGED notTimer
  /\ At("timer_set", "L192")
  /\ CanRun
  /\ OCR1A' = TimerSetOCR(next_step_time, Top.step_start)
  /\ next_step_time' = TimerSetNST(next_step_time)
  /\ stack' = Goto("L211")
  /\ nsets' = nsets + 1
  /\ reqDelay' = Top.delay
  /\ reqShort' = Top.cs
  /\ setAt' = since
  /\ wraps' = 0
  /\ target' = Offset(next_step_time)
  /\ onTime' = ("OCF1A" \notin TIFR1 /\ since < Offset(next_step_time))
  /\ armed' = TRUE
  /\ UNCHANGED << TCCR1B, TCNT1, OCR1B, TIMSK1, TIFR1, SREG_I, busy, nticks,
                  nclock, prevOCR, nreal >>
  /\ UNCHANGED clockObs

timer_set_L211_sei ==
  /\ UNCHANGED notTimer
  /\ At("timer_set", "L211")
  /\ TIMSK1' = TIMSK1 \cup {"OCIE1A"}
  /\ SREG_I' = TRUE
  /\ stack' = Goto("L217")
  /\ UNCHANGED << TCCR1B, TCNT1, OCR1A, OCR1B, TIFR1, next_step_time, busy >>
  /\ UNCHANGED << counts, clockObs, stepObs >>

\* TIMSK1 |= MASK(OCIE1A);
timer_set_L211 ==
  /\ UNCHANGED notTimer
  /\ At("timer_set", "L211")
  /\ CanRun
  /\ TIMSK1' = TIMSK1 \cup {"OCIE1A"}
  /\ stack' = Goto("L217")
  /\ UNCHANGED << TCCR1B, TCNT1, OCR1A, OCR1B, TIFR1, SREG_I, next_step_time,
                  busy >>
  /\ UNCHANGED << counts, clockObs, stepObs >>

\* return 0;
timer_set_L217 ==
  /\ UNCHANGED notTimer
  /\ At("timer_set", "L217")
  /\ CanRun
  /\ Return(0)
  /\ UNCHANGED << hw, next_step_time, busy, counts, clockObs, stepObs >>

----------------------------------------------------------------------------
\* Step interrupt, ISR(TIMER1_COMPA_vect)

IsRealStep_trunc(nst) == ULT(Mask16(nst), COUNTER_RANGE)

\* if (next_step_time < 65536), line 73
IsRealStep(nst) == ULT(nst, COUNTER_RANGE)

\* the hardware takes the interrupt: flag cleared, global interrupts off
COMPA_enter ==
  /\ UNCHANGED notTimer
  /\ PendingA
  /\ TIFR1' = TIFR1 \ {"OCF1A"}
  /\ SREG_I' = FALSE
  /\ stack' = Append(stack, Frame("COMPA", "L73"))
  /\ pend' = -1
  /\ since' = IF ~IsRealStep(next_step_time) THEN since
              ELSE IF pend < SinceCap /\ Mask16(TCNT1 - pend) = OCR1A THEN pend
              ELSE SinceCap
  /\ UNCHANGED << TCCR1B, TCNT1, OCR1A, OCR1B, TIMSK1, next_step_time, busy,
                  matchAt >>
  /\ UNCHANGED << counts, stepObs >>

COMPA_L73 ==
  /\ UNCHANGED notTimer
  /\ At("COMPA", "L73")
  /\ CanRun
  /\ stack' = Goto(IF IsRealStep(next_step_time) THEN "L80" ELSE "L93")
  /\ UNCHANGED << hw, next_step_time, busy, counts, clockObs, stepObs >>

COMPA_L80_keep ==
  /\ UNCHANGED notTimer
  /\ At("COMPA", "L80")
  /\ CanRun
  /\ TIMSK1' = TIMSK1
  /\ stack' = Goto("L83")
  /\ prevOCR' = OCR1A
  /\ nreal' = nreal + 1
  /\ armed' = FALSE
  /\ reqDelay' = -1
  /\ reqShort' = 0
  /\ setAt' = 0
  /\ wraps' = 0
  /\ target' = 0
  /\ onTime' = FALSE
  /\ matchAt' = -1
  /\ UNCHANGED << TCCR1B, TCNT1, OCR1A, OCR1B, TIFR1, SREG_I, next_step_time,
                  busy, since, pend >>
  /\ UNCHANGED counts

\* TIMSK1 &= ~MASK(OCIE1A); then queue_step() is called
COMPA_L80 ==
  /\ UNCHANGED notTimer
  /\ At("COMPA", "L80")
  /\ CanRun
  /\ TIMSK1' = TIMSK1 \ {"OCIE1A"}
  /\ stack' = Goto("L83")
  /\ prevOCR' = OCR1A
  /\ nreal' = nreal + 1
  /\ armed' = FALSE
  /\ reqDelay' = -1
  /\ reqShort' = 0
  /\ setAt' = 0
  /\ wraps' = 0
  /\ target' = 0
  /\ onTime' = FALSE
  /\ matchAt' = -1
  /\ UNCHANGED << TCCR1B, TCNT1, OCR1A, OCR1B, TIFR1, SREG_I, next_step_time,
                  busy, since, pend >>
  /\ UNCHANGED counts

\* queue_step(): the DDA asks for the next step
queue_step_timer_set ==
  /\ UNCHANGED notTimer
  /\ At("COMPA", "L83")
  /\ CanRun
  /\ Top.tries < MaxTries
  /\ \E d \in StepDelays :
       /\ timer_set_call(d, 1)
       /\ stack' = Append([stack EXCEPT ![Len(stack)].tries = @ + 1],
                          [Frame("timer_set", "L172")
                             EXCEPT !.delay = d, !.cs = 1])

\* queue_step(): nothing (more) to schedule
queue_step_return ==
  /\ UNCHANGED notTimer
  /\ At("COMPA", "L83")
  /\ CanRun
  /\ stack' = Goto("L90")
  /\ UNCHANGED << hw, next_step_time, busy, counts, clockObs, stepObs >>

WrapOCR_noback(nst, ocr) ==
  IF ULT(nst, COUNTER_RANGE) THEN Mask16(ocr + nst) ELSE ocr

\* the compare value programmed by a wrap fire, lines 96..101
WrapOCR(nst, ocr) ==
  IF ULT(nst, COUNTER_RANGE) THEN Mask16(ocr + nst)
  ELSE IF ULT(nst, GUARD_LIMIT) THEN Mask16(ocr - COUNTER_GUARD)
  ELSE ocr

\* next_step_time after lines 96..101
WrapNST(nst) ==
  IF ~ULT(nst, COUNTER_RANGE) /\ ULT(nst, GUARD_LIMIT) THEN nst + COUNTER_GUARD
  ELSE nst

\* next_step_time -= 65536;
COMPA_L93 ==
  /\ UNCHANGED notTimer
  /\ At("COMPA", "L93")
  /\ CanRun
  /\ next_step_time' = next_step_time - COUNTER_RANGE
  /\ stack' = Goto("L96")
  /\ wraps' = wraps + 1
  /\ matchAt' = -1
  /\ UNCHANGED << reqDelay, reqShort, setAt, target, onTime, armed, prevOCR,
                  nreal >>
  /\ UNCHANGED << hw, busy, counts, since, pend >>

COMPA_L96 ==
  /\ UNCHANGED notTimer
  /\ At("COMPA", "L96")
  /\ CanRun
  /\ OCR1A' = WrapOCR(next_step_time, OCR1A)
  /\ next_step_time' = WrapNST(next_step_time)
  /\ stack' = Goto("L103")
  /\ target' = target + Offset(next_step_time)
  /\ onTime' = (onTime /\ "OCF1A" \notin TIFR1
                  /\ since < target + Offset(next_step_time))
  /\ UNCHANGED << TCCR1B, TCNT1, OCR1B, TIMSK1, TIFR1, SREG_I, busy, reqDelay,
                  reqShort, setAt, wraps, armed, prevOCR, nreal >>
  /\ UNCHANGED << counts, clockObs >>

\* return from the step interrupt (reti), lines 90 and 103
COMPA_return ==
  /\ UNCHANGED notTimer
  /\ Top.fn = "COMPA" /\ Top.pc \in {"L90", "L103"}
  /\ CanRun
  /\ stack' = Pop
  /\ SREG_I' = TRUE
  /\ UNCHANGED << TCCR1B, TCNT1, OCR1A, OCR1B, TIMSK1, TIFR1, next_step_time,
                  busy >>
  /\ UNCHANGED << counts, clockObs, stepObs >>

----------------------------------------------------------------------------
\* System tick interrupt, ISR(TIMER1_COMPB_vect)

\* the hardware takes the interrupt: flag cleared, global interrupts off
COMPB_enter ==
  /\ UNCHANGED notTimer
  /\ ~PendingA
  /\ PendingB
  /\ TIFR1' = TIFR1 \ {"OCF1B"}
  /\ SREG_I' = FALSE
  /\ stack' = Append(stack, Frame("COMPB", "L47"))
  /\ UNCHANGED << TCCR1B, TCNT1, OCR1A, OCR1B, TIMSK1, next_step_time, busy >>
  /\ UNCHANGED << counts, clockObs, stepObs >>

COMPB_L47_now ==
  /\ UNCHANGED notTimer
  /\ At("COMPB", "L47")
  /\ CanRun
  /\ OCR1B' = Mask16(TCNT1 + TICK_TIME)
  /\ nticks' = nticks + 1
  /\ stack' = Goto("L49")
  /\ UNCHANGED << TCCR1B, TCNT1, OCR1A, TIMSK1, TIFR1, SREG_I, next_step_time,
                  busy, nsets, nclock >>
  /\ UNCHANGED << clockObs, stepObs >>

\* OCR1B = (OCR1B + TICK_TIME) & 0xFFFF;
COMPB_L47 ==
  /\ UNCHANGED notTimer
  /\ At("COMPB", "L47")
  /\ CanRun
  /\ OCR1B' = Mask16(OCR1B + TICK_TIME)
  /\ nticks' = nticks + 1
  /\ stack' = Goto("L49")
  /\ UNCHANGED << TCCR1B, TCNT1, OCR1A, TIMSK1, TIFR1, SREG_I, next_step_time,
                  busy, nsets, nclock >>
  /\ UNCHANGED << clockObs, stepObs >>

\* clock_tick();
COMPB_L49 ==
  /\ UNCHANGED notTimer
  /\ At("COMPB", "L49")
  /\ CanRun
  /\ nclock' = nclock + 1
  /\ stack' = Goto("L55")
  /\ UNCHANGED << hw, next_step_time, busy, nsets, nticks, clockObs, stepObs >>

COMPB_L55_nolatch ==
  /\ UNCHANGED notTimer
  /\ At("COMPB", "L55")
  /\ CanRun
  /\ busy' = 1
  /\ stack' = Goto("L57")
  /\ UNCHANGED << hw, next_step_time, counts, clockObs, stepObs >>

\* if ( ! busy) { busy = 1;
COMPB_L55 ==
  /\ UNCHANGED notTimer
  /\ At("COMPB", "L55")
  /\ CanRun
  /\ IF busy = 0
       THEN busy' = 1 /\ stack' = Goto("L57")
       ELSE busy' = busy /\ stack' = Goto("L63")
  /\ UNCHANGED << hw, next_step_time, counts, clockObs, stepObs >>

COMPB_L57_nosei ==
  /\ UNCHANGED notTimer
  /\ At("COMPB", "L57")
  /\ CanRun
  /\ SREG_I' = SREG_I
  /\ stack' = Goto("L59")
  /\ UNCHANGED << TCCR1B, TCNT1, OCR1A, OCR1B, TIMSK1, TIFR1, next_step_time,
                  busy >>
  /\ UNCHANGED << counts, clockObs, stepObs >>

\* sei();
COMPB_L57 ==
  /\ UNCHANGED notTimer
  /\ At("COMPB", "L57")
  /\ CanRun
  /\ SREG_I' = TRUE
  /\ stack' = Goto("L59")
  /\ UNCHANGED << TCCR1B, TCNT1, OCR1A, OCR1B, TIMSK1, TIFR1, next_step_time,
                  busy >>
  /\ UNCHANGED << counts, clockObs, stepObs >>

\* dda_clock(); returns
COMPB_L59 ==
  /\ UNCHANGED notTimer
  /\ At("COMPB", "L59")
  /\ CanRun
  /\ stack' = Goto("L61")
  /\ UNCHANGED << hw, next_step_time, busy, counts, clockObs, stepObs >>

\* busy = 0; }
COMPB_L61 ==
  /\ UNCHANGED notTimer
  /\ At("COMPB", "L61")
  /\ CanRun
  /\ busy' = 0
  /\ stack' = Goto("L63")
  /\ UNCHANGED << hw, next_step_time, counts, clockObs, stepObs >>

\* return from the tick interrupt (reti)
COMPB_L63 ==
  /\ UNCHANGED notTimer
  /\ At("COMPB", "L63")
  /\ CanRun
  /\ stack' = Pop
  /\ SREG_I' = TRUE
  /\ UNCHANGED << TCCR1B, TCNT1, OCR1A, OCR1B, TIMSK1, TIFR1, next_step_time,
                  busy >>
  /\ UNCHANGED << counts, clockObs, stepObs >>

----------------------------------------------------------------------------
\* Homing routines, home.c.  One configuration is used for every axis; the
\* movement queue and the motion core behind enqueue_home(), queue_wait() and
\* dda_new_startpoint() are outside src/ and follow the specification.

\* Travel of a homing move in micrometres, the literal 1000000.
HOME_TRAVEL == 1000000

\* Homing routines called in one behaviour.
MaxHomes == 2

\* Moves the movement queue holds besides the live one.
QueueCap == 1

Axes == {"X", "Y", "Z", "U"}

Routines == {"home_x_negative", "home_x_positive",
             "home_y_negative", "home_y_positive",
             "home_z_negative", "home_z_positive",
             "home_u_negative", "home_u_positive"}

\* ACCELERATION (mm/s^2), ENDSTOP_CLEARANCE_* and SEARCH_FEEDRATE_* (mm/min)
\* of config.h; *_MIN (optional) and *_MAX in tenths of a millimetre
Accelerations == {10, 1000}

Clearances == {5, 5000}

Feedrates == {100, 2000}

MinCoords == {-5, 0}

MaxCoords == {2000}

\* positions (micrometres) at which an endstop ends a homing move
StopPositions == {-300, 77}

Configs ==
  [accel : Accelerations, clearance : Clearances, feedrate : Feedrates,
   minDefined : BOOLEAN, min : MinCoords, max : MaxCoords]

AxisOf(r) ==
  CASE r \in {"home_x_negative", "home_x_positive"} -> "X"
    [] r \in {"home_y_negative", "home_y_positive"} -> "Y"
    [] r \in {"home_z_negative", "home_z_positive"} -> "Z"
    [] r \in {"home_u_negative", "home_u_positive"} -> "U"

IsMin(r) ==
  r \in {"home_x_negative", "home_y_negative", "home_z_negative",
         "home_u_negative"}

EndstopMask_layout(r) ==
  CASE r = "home_x_negative" -> 1
    [] r = "home_x_positive" -> 2
    [] r = "home_y_negative" -> 4
    [] r = "home_y_positive" -> 8
    [] r = "home_z_negative" -> 16
    [] r = "home_z_positive" -> 32
    [] r = "home_u_negative" -> 64
    [] r = "home_u_positive" -> 128

\* second argument of enqueue_home(): 0x01, 0x02, 0x04, 0x08, 0x10, 0x20,
\* and again 0x10, 0x20 in the routines of U
EndstopMask(r) ==
  CASE r = "home_x_negative" -> 1
    [] r = "home_x_positive" -> 2
    [] r = "home_y_negative" -> 4
    [] r = "home_y_positive" -> 8
    [] r = "home_z_negative" -> 16
    [] r = "home_z_positive" -> 32
    [] r = "home_u_negative" -> 16
    [] r = "home_u_positive" -> 32

\* t.axis[a] of the approach: -1000000 towards MIN, +1000000 towards MAX
Toward(r) == IF IsMin(r) THEN 0 - HOME_TRAVEL ELSE HOME_TRAVEL

RECURSIVE SqrtBetween(_, _, _)
\* the largest r in lo..hi with r * r <= n
SqrtBetween(n, lo, hi) ==
  IF lo >= hi THEN lo
  ELSE LET mid == (lo + hi + 1) \div 2
       IN  IF mid * mid <= n THEN SqrtBetween(n, mid, hi)
           ELSE SqrtBetween(n, lo, mid - 1)

\* (uint32_t) of the square root of a non-negative real with integer part n
ISqrt(n) == SqrtBetween(n, 0, 46340)

SEARCH_FAST_unscaled(c) == ISqrt((2 * c.accel * c.clearance) \div 1000)

\* (uint32_t)(60. * sqrt(2 * ACCELERATION * ENDSTOP_CLEARANCE / 1000.)):
\* the truncation of the square root of 3600 * 2 * a * c / 1000, which is
\* 72 * a * c / 10
SEARCH_FAST(c) == ISqrt((72 * c.accel * c.clearance) \div 10)

\* SEARCH_FAST > SEARCH_FEEDRATE
FastSearch(c) == SEARCH_FAST(c) > c.feedrate

\* (int32_t)(coordinate * 1000.), the coordinate given in tenths of a mm:
\* truncation towards zero of tenths * 1000 / 10
ToMicrometres(tenths) ==
  IF tenths >= 0 THEN (tenths * 1000) \div 10
  ELSE 0 - (((0 - tenths) * 1000) \div 10)

HomePosition_max(r, c) == ToMicrometres(c.max)

\* the value assigned to the axis after queue_wait()
HomePosition(r, c) ==
  IF IsMin(r)
  THEN IF c.minDefined THEN ToMicrometres(c.min) ELSE 0
  ELSE ToMicrometres(c.max)

\* the arguments of one enqueue_home() call
Move(tgt, mask, flag) == [t |-> tgt, mask |-> mask, flag |-> flag]

\* home() and the build's endstop pins
homeAll == << pins, home_pc, homed >>

\* what home() leaves alone
notHomeAll == << timerVars, i2cVars >>

\* what a homing routine leaves alone
notHome == << timerVars, i2cVars, homeAll >>

HomeReset ==
  /\ cfg \in {[accel |-> 1000, clearance |-> 5, feedrate |-> 100,
               minDefined |-> TRUE, min |-> 0, max |-> 2000]}
  /\ startpoint = [a \in Axes |-> 0]
  /\ next_target = [a \in Axes |-> 0]
  /\ t = [axis |-> [a \in Axes |-> 0], F |-> 0]
  /\ hpc = "idle"
  /\ routine = "none"
  /\ entry = [sp |-> [a \in Axes |-> 0], nt |-> [a \in Axes |-> 0]]
  /\ enq = << >>
  /\ queue = << >>
  /\ live = << >>
  /\ nhomes = 0
  /\ notified = [a \in Axes |-> 0]
  /\ pins = [a \in Axes |-> {"MIN", "MAX"}]
  /\ home_pc = "idle"
  /\ homed = << >>

\* the firmware is built with one of the configurations, the axes are
\* anywhere before the first homing
HomeInit ==
  /\ cfg \in Configs
  /\ startpoint \in {[a \in Axes |-> 0], [a \in Axes |-> 12000]}
  /\ next_target = startpoint
  /\ t = [axis |-> [a \in Axes |-> 0], F |-> 0]
  /\ hpc = "idle"
  /\ routine = "none"
  /\ entry = [sp |-> startpoint, nt |-> next_target]
  /\ enq = << >>
  /\ queue = << >>
  /\ live = << >>
  /\ nhomes = 0
  /\ notified = startpoint
  /\ pins = [a \in Axes |-> {"MIN", "MAX"}]
  /\ home_pc = "idle"
  /\ homed = << >>

\* a homing routine is called (home(), or the G-code interpreter)
home_call ==
  /\ hpc = "idle"
  /\ nhomes < MaxHomes
  /\ \E r \in Routines :
       /\ routine' = r
       /\ hpc' = "L100"
  /\ entry' = [sp |-> startpoint, nt |-> next_target]
  /\ enq' = << >>
  /\ nhomes' = nhomes + 1
  /\ UNCHANGED << cfg, startpoint, next_target, t, queue, live, notified >>
  /\ UNCHANGED notHome

\* TARGET t = startpoint;
home_L100 ==
  /\ hpc = "L100"
  /\ t' = [axis |-> startpoint, F |-> 0]
  /\ hpc' = "L102"
  /\ UNCHANGED << cfg, startpoint, next_target, routine, entry, enq, queue,
                  live, nhomes, notified >>
  /\ UNCHANGED notHome

\* t.axis[X] = -1000000; if (SEARCH_FAST_X > SEARCH_FEEDRATE_X) t.F = ...
home_L102 ==
  /\ hpc = "L102"
  /\ t' = [axis |-> [t.axis EXCEPT ![AxisOf(routine)] = Toward(routine)],
           F |-> IF FastSearch(cfg) THEN SEARCH_FAST(cfg) ELSE cfg.feedrate]
  /\ hpc' = "L107"
  /\ UNCHANGED << cfg, startpoint, next_target, routine, entry, enq, queue,
                  live, nhomes, notified >>
  /\ UNCHANGED notHome

\* enqueue_home(&t, mask, flag): waits for room in the movement queue
enqueue_home(tgt, mask, flag) ==
  /\ Len(queue) < QueueCap
  /\ queue' = Append(queue, Move(tgt, mask, flag))
  /\ enq' = Append(enq, Move(tgt, mask, flag))

\* enqueue_home(&t, 0x01, 1);
home_L107 ==
  /\ hpc = "L107"
  /\ enqueue_home(t, EndstopMask(routine), 1)
  /\ hpc' = "L109"
  /\ UNCHANGED << cfg, startpoint, next_target, t, routine, entry, live,
                  nhomes, notified >>
  /\ UNCHANGED notHome

home_L109_always ==
  /\ hpc = "L109"
  /\ t' = [axis |-> [t.axis EXCEPT ![AxisOf(routine)] = 0 - Toward(routine)],
           F |-> cfg.feedrate]
  /\ hpc' = "L113"
  /\ UNCHANGED << cfg, startpoint, next_target, routine, entry, enq, queue,
                  live, nhomes, notified >>
  /\ UNCHANGED notHome

home_L109_keepF ==
  /\ hpc = "L109"
  /\ IF FastSearch(cfg)
       THEN /\ t' = [t EXCEPT !.axis[AxisOf(routine)] = 0 - Toward(routine)]
            /\ hpc' = "L113"
       ELSE /\ t' = t
            /\ hpc' = "L117"
  /\ UNCHANGED << cfg, startpoint, next_target, routine, entry, enq, queue,
                  live, nhomes, notified >>
  /\ UNCHANGED notHome

\* if (SEARCH_FAST_X > SEARCH_FEEDRATE_X) { t.axis[X] = +1000000;
\*   t.F = SEARCH_FEEDRATE_X;
home_L109 ==
  /\ hpc = "L109"
  /\ IF FastSearch(cfg)
       THEN /\ t' = [axis |-> [t.axis EXCEPT ![AxisOf(routine)] =
                                 0 - Toward(routine)],
                     F |-> cfg.feedrate]
            /\ hpc' = "L113"
       ELSE /\ t' = t
            /\ hpc' = "L117"
  /\ UNCHANGED << cfg, startpoint, next_target, routine, entry, enq, queue,
                  live, nhomes, notified >>
  /\ UNCHANGED notHome

\*   enqueue_home(&t, 0x01, 0); }
home_L113 ==
  /\ hpc = "L113"
  /\ enqueue_home(t, EndstopMask(routine), 0)
  /\ hpc' = "L117"
  /\ UNCHANGED << cfg, startpoint, next_target, t, routine, entry, live,
                  nhomes, notified >>
  /\ UNCHANGED notHome

home_L117_nowait ==
  /\ hpc = "L117"
  /\ hpc' = "L119"
  /\ UNCHANGED << cfg, startpoint, next_target, t, routine, entry, enq,
                  queue, live, nhomes, notified >>
  /\ UNCHANGED notHome

\* queue_wait(): returns when the queue is empty and no move is live
home_L117 ==
  /\ hpc = "L117"
  /\ queue = << >>
  /\ live = << >>
  /\ hpc' = "L119"
  /\ UNCHANGED << cfg, startpoint, next_target, t, routine, entry, enq,
                  queue, live, nhomes, notified >>
  /\ UNCHANGED notHome

\* startpoint.axis[X] = next_target.target.axis[X] = (int32_t)(X_MIN * 1000.0);
home_L119 ==
  /\ hpc = "L119"
  /\ startpoint' = [startpoint EXCEPT ![AxisOf(routine)] =
                      HomePosition(routine, cfg)]
  /\ next_target' = [next_target EXCEPT ![AxisOf(routine)] =
                       HomePosition(routine, cfg)]
  /\ hpc' = "L123"
  /\ UNCHANGED << cfg, t, routine, entry, enq, queue, live, nhomes,
                  notified >>
  /\ UNCHANGED notHome

\* dda_new_startpoint(); and the routine returns
home_L123 ==
  /\ hpc = "L123"
  /\ notified' = startpoint
  /\ hpc' = "idle"
  /\ UNCHANGED << cfg, startpoint, next_target, t, routine, entry, enq,
                  queue, live, nhomes >>
  /\ UNCHANGED notHome

\* the motion core takes the next move from the queue
core_start ==
  /\ live = << >>
  /\ queue # << >>
  /\ live' = << Head(queue) >>
  /\ queue' = Tail(queue)
  /\ UNCHANGED << cfg, startpoint, next_target, t, hpc, routine, entry, enq,
                  nhomes, notified >>
  /\ UNCHANGED notHome

\* the endstop ends the live move; the axis that moved stands where it
\* stopped
core_finish ==
  /\ live # << >>
  /\ \E pos \in StopPositions :
       startpoint' = [a \in Axes |->
                        IF live[1].t.axis[a] # startpoint[a] THEN pos
                        ELSE startpoint[a]]
  /\ live' = << >>
  /\ UNCHANGED << cfg, next_target, t, hpc, routine, entry, enq, queue,
                  nhomes, notified >>
  /\ UNCHANGED notHome

----------------------------------------------------------------------------
\* home(), lines 70..95: one #if / #elif per axis

\* the endstop pins a build can define: *_MIN_PIN, *_MAX_PIN, both or none
PinConfigs == [Axes -> SUBSET {"MIN", "MAX"}]

NegativeOf(a) ==
  CASE a = "X" -> "home_x_negative"
    [] a = "Y" -> "home_y_negative"
    [] a = "Z" -> "home_z_negative"
    [] a = "U" -> "home_u_negative"

PositiveOf(a) ==
  CASE a = "X" -> "home_x_positive"
    [] a = "Y" -> "home_y_positive"
    [] a = "Z" -> "home_z_positive"
    [] a = "U" -> "home_u_positive"

RoutineFor_maxfirst(a, p) ==
  IF "MAX" \in p THEN PositiveOf(a) ELSE NegativeOf(a)

\* #if defined X_MIN_PIN home_x_negative(); #elif defined X_MAX_PIN
\* home_x_positive(); #endif
RoutineFor(a, p) ==
  IF "MIN" \in p THEN NegativeOf(a) ELSE PositiveOf(a)

\* the build of the firmware: the endstop pins, and a configuration with
\* and one without a fast approach
HomeAllInit ==
  /\ cfg \in {c \in Configs : /\ c.minDefined /\ c.min = -5
                               /\ c.feedrate = 100
                               /\ c.accel = 10}
  /\ startpoint = [a \in Axes |-> 12000]
  /\ next_target = startpoint
  /\ t = [axis |-> [a \in Axes |-> 0], F |-> 0]
  /\ hpc = "idle"
  /\ routine = "none"
  /\ entry = [sp |-> startpoint, nt |-> next_target]
  /\ enq = << >>
  /\ queue = << >>
  /\ live = << >>
  /\ nhomes = 0
  /\ notified = startpoint
  /\ pins \in PinConfigs
  /\ home_pc = "idle"
  /\ homed = << >>

\* home() is called
home_L70 ==
  /\ home_pc = "idle"
  /\ hpc = "idle"
  /\ home_pc' = "L72"
  /\ UNCHANGED << cfg, startpoint, next_target, t, hpc, routine, entry, enq,
                  queue, live, nhomes, notified, pins, homed >>
  /\ UNCHANGED notHomeAll

\* the part of home() for one axis: the call of its routine, if the build
\* has one
HomeAxis(a, next) ==
  /\ hpc = "idle"
  /\ IF pins[a] # {}
       THEN /\ routine' = RoutineFor(a, pins[a])
            /\ hpc' = "L100"
            /\ entry' = [sp |-> startpoint, nt |-> next_target]
            /\ enq' = << >>
            /\ nhomes' = nhomes + 1
            /\ homed' = Append(homed, RoutineFor(a, pins[a]))
       ELSE UNCHANGED << routine, hpc, entry, enq, nhomes, homed >>
  /\ home_pc' = next
  /\ UNCHANGED << cfg, startpoint, next_target, t, queue, live, notified,
                  pins >>
  /\ UNCHANGED notHomeAll

home_L72 == home_pc = "L72" /\ HomeAxis("X", "L78")

home_L78 == home_pc = "L78" /\ HomeAxis("Y", "L84")

home_L84 == home_pc = "L84" /\ HomeAxis("Z", "L90")

home_L90 == home_pc = "L90" /\ HomeAxis("U", "L95")

\* home() returns, after the last routine has
home_L95 ==
  /\ home_pc = "L95"
  /\ hpc = "idle"
  /\ home_pc' = "done"
  /\ UNCHANGED << cfg, startpoint, next_target, t, hpc, routine, entry, enq,
                  queue, live, nhomes, notified, pins, homed >>
  /\ UNCHANGED notHomeAll

----------------------------------------------------------------------------
\* I2C / TWI driver of timer-avr.c, master mode without read and EEPROM
\* support.  The byte passed by the n-th call of i2c_write() is n.  The TWI
\* interrupt runs with the interrupts disabled, so an invocation is one
\* step; i2c_write() is preempted between any two of its statements.

\* BUFSIZE, the size of the ring buffer (a power of two)
BUFSIZE == 4

\* Calls of i2c_write() in one behaviour.
MaxWrites == 4

\* Transfers the bus leaves unacknowledged in one behaviour.
MaxNacks == 1

\* entries of the bus log
Ev(kind, id) == [ev |-> kind, id |-> id]

\* what the I2C driver leaves alone
notI2C == << timerVars, homeVars >>

\* ringbuffer.h: ((sendhead - sendtail) & (BUFSIZE - 1))
buf_canread == (sendhead - sendtail) % BUFSIZE # 0

\* ringbuffer.h: ((sendtail - sendhead - 1) & (BUFSIZE - 1))
buf_canwrite == (sendtail - sendhead - 1) % BUFSIZE # 0

\* (i2c_state & I2C_MODE_MASK) == I2C_MODE_SAWP
ModeSAWP(st) == "SAWP" \in st /\ "ENHA" \notin st

I2CReset ==
  /\ i2c_state = {}
  /\ i2c_should_end = 0
  /\ sendhead = 0
  /\ sendtail = 0
  /\ sendbuf = [i \in 0..(BUFSIZE - 1) |-> 0]
  /\ TWCR_TWIE = FALSE
  /\ TWCR_TWINT = FALSE
  /\ TWSR = "none"
  /\ TWDR = Ev("none", 0)
  /\ twiop = "none"
  /\ ipc = "idle"
  /\ data = 0
  /\ last_byte = 0
  /\ tmp = {}
  /\ nwrites = 0
  /\ nnacks = 0
  /\ accepted = {}
  /\ txno = 1
  /\ txOf = [i \in 1..MaxWrites |-> 0]
  /\ lastPending = FALSE
  /\ wire = << >>
  /\ firsts = {}
  /\ afterError = FALSE

twiRegs == << TWCR_TWIE, TWCR_TWINT, TWSR, TWDR, twiop >>

ring == << sendhead, sendtail, sendbuf >>

args == << data, last_byte >>

i2cObs == << nnacks, accepted, txno, txOf, lastPending, wire, firsts,
            afterError >>

\* the caller sends the next byte
i2c_write_call ==
  /\ ipc = "idle"
  /\ nwrites < MaxWrites
  /\ \E l \in {0, 1} : last_byte' = l
  /\ data' = nwrites + 1
  /\ nwrites' = nwrites + 1
  /\ ipc' = "L454"
  /\ firsts' = IF nwrites = 0 \/ last_byte # 0 THEN firsts \cup {nwrites + 1}
                ELSE firsts
  /\ UNCHANGED << i2c_state, i2c_should_end, ring, twiRegs, tmp, nnacks,
                  accepted, txno, txOf, lastPending, wire, afterError >>
  /\ UNCHANGED notI2C

\* if (i2c_state & I2C_ERROR) { if (last_byte) i2c_state &= ~I2C_ERROR;
\*   return; }
i2c_write_L454 ==
  /\ ipc = "L454"
  /\ IF "ERROR" \in i2c_state
       THEN /\ i2c_state' = IF last_byte # 0 THEN i2c_state \ {"ERROR"}
                            ELSE i2c_state
            /\ ipc' = "idle"
       ELSE /\ i2c_state' = i2c_state
            /\ ipc' = "L461"
  /\ UNCHANGED << i2c_should_end, ring, twiRegs, args, tmp, nwrites, i2cObs >>
  /\ UNCHANGED notI2C

i2c_write_L461_nowait ==
  /\ ipc = "L461"
  /\ buf_canwrite
  /\ ipc' = "L465"
  /\ UNCHANGED << i2c_state, i2c_should_end, ring, twiRegs, args, tmp,
                  nwrites, i2cObs >>
  /\ UNCHANGED notI2C

\* while (i2c_should_end || ! buf_canwrite(send)) delay_us(10);
i2c_write_L461 ==
  /\ ipc = "L461"
  /\ ~(i2c_should_end # 0 \/ ~buf_canwrite)
  /\ ipc' = "L465"
  /\ UNCHANGED << i2c_state, i2c_should_end, ring, twiRegs, args, tmp,
                  nwrites, i2cObs >>
  /\ UNCHANGED notI2C

\* if ( ! (i2c_state & I2C_MODE_BUSY))
i2c_write_L465 ==
  /\ ipc = "L465"
  /\ ipc' = IF "BUSY" \notin i2c_state THEN "L467" ELSE "L473"
  /\ UNCHANGED << i2c_state, i2c_should_end, ring, twiRegs, args, tmp,
                  nwrites, i2cObs >>
  /\ UNCHANGED notI2C

\* i2c_state = I2C_MODE_SAWP;
i2c_write_L467 ==
  /\ ipc = "L467"
  /\ i2c_state' = {"SAWP"}
  /\ ipc' = "L468"
  /\ UNCHANGED << i2c_should_end, ring, twiRegs, args, tmp, nwrites, i2cObs >>
  /\ UNCHANGED notI2C

\* TWCR = (1<<TWINT)|(1<<TWSTA)|(1<<TWEN)|(1<<TWIE): the TWI sends START
i2c_write_L468 ==
  /\ ipc = "L468"
  /\ TWCR_TWIE' = TRUE
  /\ TWCR_TWINT' = FALSE
  /\ twiop' = "start"
  /\ ipc' = "L469"
  /\ UNCHANGED << i2c_state, i2c_should_end, ring, TWSR, TWDR, args, tmp,
                  nwrites, i2cObs >>
  /\ UNCHANGED notI2C

\* i2c_state |= I2C_MODE_BUSY; the read of the volatile
i2c_write_L469 ==
  /\ ipc = "L469"
  /\ tmp' = i2c_state
  /\ ipc' = "L469store"
  /\ UNCHANGED << i2c_state, i2c_should_end, ring, twiRegs, args, nwrites,
                  i2cObs >>
  /\ UNCHANGED notI2C

\* i2c_state |= I2C_MODE_BUSY; the write
i2c_write_L469_store ==
  /\ ipc = "L469store"
  /\ i2c_state' = tmp \cup {"BUSY"}
  /\ ipc' = "L473"
  /\ UNCHANGED << i2c_should_end, ring, twiRegs, args, tmp, nwrites, i2cObs >>
  /\ UNCHANGED notI2C

\* ATOMIC_START buf_push(send, data); i2c_should_end = last_byte; ATOMIC_END
i2c_write_L473 ==
  /\ ipc = "L473"
  /\ sendbuf' = [sendbuf EXCEPT ![sendhead] = data]
  /\ sendhead' = (sendhead + 1) % BUFSIZE
  /\ i2c_should_end' = last_byte
  /\ ipc' = "idle"
  /\ accepted' = accepted \cup {data}
  /\ txOf' = [txOf EXCEPT ![data] = txno]
  /\ txno' = IF last_byte # 0 THEN txno + 1 ELSE txno
  /\ lastPending' = (lastPending \/ last_byte # 0)
  /\ afterError' = FALSE
  /\ UNCHANGED << i2c_state, sendtail, twiRegs, args, tmp, nwrites, nnacks,
                  wire, firsts >>
  /\ UNCHANGED notI2C

\* TWSR after the operation the TWI was given, acknowledged by the bus
AckStatus(op) ==
  CASE op = "start" -> "TW_START"
    [] op = "sla_w" -> "TW_MT_SLA_ACK"
    [] op = "sla_r" -> "TW_MR_SLA_ACK"
    [] op = "data" -> "TW_MT_DATA_ACK"

NackStatus(op) ==
  CASE op = "sla_w" -> "TW_MT_SLA_NACK"
    [] op = "sla_r" -> "TW_MR_SLA_NACK"
    [] op = "data" -> "TW_MT_DATA_NACK"

\* the TWI hardware has done its operation on the bus: TWINT is set
twi_bus_ack ==
  /\ twiop # "none"
  /\ TWCR_TWINT' = TRUE
  /\ TWSR' = AckStatus(twiop)
  /\ twiop' = "none"
  /\ UNCHANGED << i2c_state, i2c_should_end, ring, TWCR_TWIE, TWDR, ipc, args,
                  tmp, nwrites, i2cObs >>
  /\ UNCHANGED notI2C

\* the partner does not acknowledge the address or the byte
twi_bus_nack ==
  /\ twiop \in {"sla_w", "sla_r", "data"}
  /\ nnacks < MaxNacks
  /\ nnacks' = nnacks + 1
  /\ TWCR_TWINT' = TRUE
  /\ TWSR' = NackStatus(twiop)
  /\ twiop' = "none"
  /\ UNCHANGED << i2c_state, i2c_should_end, ring, TWCR_TWIE, TWDR, ipc, args,
                  tmp, nwrites, accepted, txno, txOf, lastPending, wire,
                  firsts, afterError >>
  /\ UNCHANGED notI2C

\* the TWI interrupt is taken with this status
TWI_vect(status) == TWCR_TWINT /\ TWCR_TWIE /\ TWSR = status

\* case TW_START: TWDR = i2c_address with the R/W bit of the mode
TWI_START ==
  /\ TWI_vect("TW_START")
  /\ TWDR' = IF "SAWP" \notin i2c_state /\ "ENHA" \notin i2c_state
             THEN Ev("SLA_R", 0) ELSE Ev("SLA_W", 0)
  /\ twiop' = IF "SAWP" \notin i2c_state /\ "ENHA" \notin i2c_state
              THEN "sla_r" ELSE "sla_w"
  /\ TWCR_TWINT' = FALSE
  /\ wire' = Append(wire, Ev("START", 0))
  /\ UNCHANGED << i2c_state, i2c_should_end, ring, TWCR_TWIE, TWSR, ipc, args,
                  tmp, nwrites, nnacks, accepted, txno, txOf, lastPending,
                  firsts, afterError >>
  /\ UNCHANGED notI2C

\* buf_pop(send, TWDR); TWCR = (1<<TWINT)|...|(1<<TWEN)|(1<<TWIE);
SendNext ==
  /\ TWDR' = Ev("byte", sendbuf[sendtail])
  /\ sendtail' = (sendtail + 1) % BUFSIZE
  /\ TWCR_TWINT' = FALSE
  /\ twiop' = "data"
  /\ wire' = Append(wire, Ev("byte", sendbuf[sendtail]))
  /\ UNCHANGED << i2c_state, i2c_should_end, sendhead, sendbuf, TWCR_TWIE,
                  TWSR, lastPending >>

\* case TW_MT_SLA_ACK: the first byte, when there is one
TWI_MT_SLA_ACK ==
  /\ TWI_vect("TW_MT_SLA_ACK")
  /\ ModeSAWP(i2c_state) /\ buf_canread
  /\ SendNext
  /\ UNCHANGED << ipc, args, tmp, nwrites, nnacks, accepted, txno, txOf,
                  firsts, afterError >>
  /\ UNCHANGED notI2C

\* i2c_state = 0; i2c_should_end = 0; TWCR = ...|(1<<TWSTO)|...|(0<<TWIE);
EndTransmission ==
  /\ i2c_state' = {}
  /\ i2c_should_end' = 0
  /\ TWCR_TWINT' = FALSE
  /\ TWCR_TWIE' = FALSE
  /\ twiop' = "none"
  /\ lastPending' = FALSE
  /\ wire' = Append(wire, Ev("STOP", 0))
  /\ UNCHANGED << ring, TWSR, TWDR >>

\* case TW_MT_DATA_ACK: the next byte, or STOP when the buffer is drained
TWI_MT_DATA_ACK ==
  /\ TWI_vect("TW_MT_DATA_ACK")
  /\ ModeSAWP(i2c_state)
  /\ IF buf_canread THEN SendNext ELSE EndTransmission
  /\ UNCHANGED << ipc, args, tmp, nwrites, nnacks, accepted, txno, txOf,
                  firsts, afterError >>
  /\ UNCHANGED notI2C

\* case TW_BUS_ERROR, TW_MT_SLA_NACK, TW_MT_DATA_NACK, TW_MT_ARB_LOST:
\* flag the error, let i2c_write() continue, drain the buffer, STOP
TWI_error ==
  /\ \/ TWI_vect("TW_MT_SLA_NACK")
     \/ TWI_vect("TW_MT_DATA_NACK")
  /\ i2c_state' = i2c_state \cup {"ERROR", "INTERRUPTED"}
  /\ i2c_should_end' = 0
  /\ sendtail' = sendhead
  /\ TWDR' = IF buf_canread THEN Ev("byte", sendbuf[(sendhead - 1) % BUFSIZE])
             ELSE TWDR
  /\ TWCR_TWINT' = FALSE
  /\ TWCR_TWIE' = FALSE
  /\ twiop' = "none"
  /\ lastPending' = FALSE
  /\ wire' = Append(wire, Ev("STOP", 0))
  /\ afterError' = TRUE
  /\ UNCHANGED << sendhead, sendbuf, TWSR, ipc, args, tmp, nwrites, nnacks,
                  accepted, txno, txOf, firsts >>
  /\ UNCHANGED notI2C

----------------------------------------------------------------------------
Init == TimerReset /\ HomeReset /\ I2CReset

Next ==
  \/ AdvanceToMatch
  \/ AdvanceFree
  \/ timer_init
  \/ main_sei
  \/ main_timer_set
  \/ timer_stop
  \/ stopped_sei
  \/ timer_set_L172
  \/ timer_set_L177
  \/ timer_set_L183
  \/ timer_set_L192
  \/ timer_set_L211
  \/ timer_set_L217
  \/ COMPA_enter
  \/ COMPA_L73
  \/ COMPA_L80
  \/ queue_step_timer_set
  \/ queue_step_return
  \/ COMPA_L93
  \/ COMPA_L96
  \/ COMPA_return
  \/ COMPB_enter
  \/ COMPB_L47
  \/ COMPB_L49
  \/ COMPB_L55
  \/ COMPB_L57
  \/ COMPB_L59
  \/ COMPB_L61
  \/ COMPB_L63

Spec == Init /\ [][Next]_vars

\* the homing routines with the movement queue, the timer left at reset
InitHome == TimerReset /\ HomeInit /\ I2CReset

NextHome ==
  \/ home_call
  \/ home_L100
  \/ home_L102
  \/ home_L107
  \/ home_L109
  \/ home_L113
  \/ home_L117
  \/ home_L119
  \/ home_L123
  \/ core_start
  \/ core_finish

SpecHome == InitHome /\ [][NextHome]_vars

\* home() with the routines it calls and the movement queue
InitHomeAll == TimerReset /\ HomeAllInit /\ I2CReset

NextHomeAll ==
  \/ home_L70
  \/ home_L72
  \/ home_L78
  \/ home_L84
  \/ home_L90
  \/ home_L95
  \/ home_L100
  \/ home_L102
  \/ home_L107
  \/ home_L109
  \/ home_L113
  \/ home_L117
  \/ home_L119
  \/ home_L123
  \/ core_start
  \/ core_finish

SpecHomeAll == InitHomeAll /\ [][NextHomeAll]_vars

\* the I2C driver, the timer and the homing code left at rest
NextI2C ==
  \/ i2c_write_call
  \/ i2c_write_L454
  \/ i2c_write_L461
  \/ i2c_write_L465
  \/ i2c_write_L467
  \/ i2c_write_L468
  \/ i2c_write_L469
  \/ i2c_write_L469_store
  \/ i2c_write_L473
  \/ twi_bus_ack
  \/ twi_bus_nack
  \/ TWI_START
  \/ TWI_MT_SLA_ACK
  \/ TWI_MT_DATA_ACK
  \/ TWI_error

SpecI2C == Init /\ [][NextI2C]_vars

\* i2c_write() goes on, the bus completes what it was given, and the TWI
\* interrupt is serviced
I2CFairness ==
  /\ WF_vars(i2c_write_L454)
  /\ WF_vars(i2c_write_L461)
  /\ WF_vars(i2c_write_L465)
  /\ WF_vars(i2c_write_L467)
  /\ WF_vars(i2c_write_L468)
  /\ WF_vars(i2c_write_L469)
  /\ WF_vars(i2c_write_L469_store)
  /\ WF_vars(i2c_write_L473)
  /\ WF_vars(twi_bus_ack \/ twi_bus_nack)
  /\ WF_vars(TWI_START)
  /\ WF_vars(TWI_MT_SLA_ACK)
  /\ WF_vars(TWI_MT_DATA_ACK)
  /\ WF_vars(TWI_error)

SpecI2CFair == SpecI2C /\ I2CFairness

----------------------------------------------------------------------------
\* Claims.

\* a real step fires: the step ISR has found next_step_time < 65536 and is
\* about to disable its interrupt and call queue_step()
RealStepFires == At("COMPA", "L80")

\* frames of the tick ISR that are inside the latched body
InBody == {i \in 1..Len(stack) :
             stack[i].fn = "COMPB" /\ stack[i].pc \in {"L57", "L59", "L61"}}

C2_WrapCount ==
  /\ (RealStepFires /\ reqDelay >= COUNTER_RANGE)
        => wraps = reqDelay \div COUNTER_RANGE
  /\ (Top.fn = "COMPA" /\ Top.pc \in {"L73", "L80", "L93", "L96"}) => armed

C2_Witness == RealStepFires /\ reqDelay = 197842 /\ wraps = 3

\* C3: when a real step fires, OCR1A is OCR1A of the previous real step plus
\* the delay passed to timer_set, modulo 65536.
C3_Anchor ==
  (RealStepFires /\ reqDelay >= 0) => OCR1A = Mask16(prevOCR + reqDelay)

C3_Witness ==
  /\ RealStepFires /\ nreal >= 1 /\ wraps = 3
  /\ prevOCR # 0
  /\ OCR1A = Mask16(prevOCR + 197842)

\* C4: the step ISR is never entered with next_step_time in 65536..75535,
\* what is left after the subtraction of a wrap fire is at least 10000, and
\* for a delay >= 65536 timer_set programs a compare value at least 10000
\* ticks ahead of the one it read.
C4_GuardBand ==
  /\ (At("COMPA", "L73") /\ ~ULT(next_step_time, COUNTER_RANGE))
        => ~ULT(next_step_time, GUARD_LIMIT)
  /\ At("COMPA", "L96") => ~ULT(next_step_time, COUNTER_GUARD)
  /\ (At("timer_set", "L211") /\ Top.delay >= COUNTER_RANGE)
        => Mask16(OCR1A - Top.step_start - 1) + 1 >= COUNTER_GUARD

C4_Witness == At("COMPA", "L73") /\ next_step_time = 80000

\* C5 as stated: timer_set(delay, 1) returns 1 whenever
\* ((TCNT1 - OCR1A) mod 65536) + 200 > delay, and then OCR1A is unchanged and
\* the step compare interrupt is not enabled.
C5_TooShort ==
  /\ (At("timer_set", "L192") /\ Top.cs = 1)
        => ~(Mask16(Top.current_time - Top.step_start) + SAFE_ISR_CYCLES
               > Top.delay)
  /\ At("timer_set", "L183")
        => (OCR1A = Top.step_start /\ "OCIE1A" \notin TIMSK1)

\* C6: timer_set(delay, 0) never returns 1; when it returns, OCR1A has been
\* written from the compare value it read and the step compare interrupt is
\* enabled.
C6_AlwaysScheduled ==
  (Top.fn = "timer_set" /\ Top.cs = 0)
     => /\ Top.pc \notin {"L177", "L183"}
        /\ Top.pc = "L217"
             => /\ "OCIE1A" \in TIMSK1
                /\ OCR1A \in {Mask16(Top.step_start + Top.delay),
                              Mask16(Top.step_start - COUNTER_GUARD),
                              Top.step_start}

\* a delay shorter than the time elapsed since the compare value read
C6_Witness ==
  /\ At("timer_set", "L217") /\ Top.cs = 0
  /\ Top.delay < Mask16(TCNT1 - Top.step_start)
  /\ "OCIE1A" \in TIMSK1

C8_OneBody ==
  /\ Cardinality(InBody) <= 1
  /\ InBody # {} => busy = 1

\* a nested invocation found the latch set and skipped the body
C8_Witness ==
  /\ At("COMPB", "L63") /\ busy = 1
  /\ \E i \in 1..(Len(stack) - 1) :
        stack[i].fn = "COMPB" /\ stack[i].pc = "L59"

\* C9: after n serviced ticks OCR1B = ((n + 1) * TICK_TIME) mod 65536, and
\* clock_tick() has been called once per invocation.
C9_Cadence ==
  /\ TCCR1B = 1 => OCR1B = Mask16((nticks + 1) * TICK_TIME)
  /\ nclock = nticks - (IF At("COMPB", "L49") THEN 1 ELSE 0)
  /\ \A i \in 1..(Len(stack) - 1) :
        stack[i].fn = "COMPB" => stack[i].pc \in {"L59", "L63"}

\* the second tick was serviced by a nested invocation that skipped the body
C9_Witness ==
  /\ At("COMPB", "L63") /\ busy = 1
  /\ \E i \in 1..(Len(stack) - 1) :
        stack[i].fn = "COMPB" /\ stack[i].pc = "L59"
  /\ nticks = 2 /\ nclock = 2
  /\ OCR1B = 30464

Stopped == stack[1].pc \in {"stopped", "stopsei"}

\* C11: after timer_stop() no interrupt service routine of Timer1 is entered,
\* whatever is pending and whatever next_step_time, OCR1A and OCR1B hold:
\* the foreground frame stays the only frame and both compare interrupts
\* stay disabled.
C11_StopHolds ==
  Stopped => (Len(stack) = 1 /\ TIMSK1 = {})

\* stopped in the middle of a multi-wrap delay, interrupts enabled, both
\* compare matches flagged since
C11_Witness ==
  /\ At("main", "stopped") /\ SREG_I
  /\ ~ULT(next_step_time, COUNTER_RANGE)
  /\ wraps >= 1
  /\ TIFR1 = {"OCF1A", "OCF1B"}
  /\ nticks < MaxTicks

\* C12: timer_init() leaves OCR1B = TICK_TIME mod 65536 with only the tick
\* compare interrupt enabled, and until timer_set() is called the step
\* compare interrupt stays disabled and the step ISR is not entered.
C12_InitDisarmed ==
  /\ (At("main", "sei") /\ nsets = 0 /\ nticks = 0)
        => (OCR1B = Mask16(TICK_TIME) /\ TIMSK1 = {"OCIE1B"} /\ TCCR1B = 1)
  /\ (nsets = 0 /\ \A i \in 1..Len(stack) : stack[i].fn # "timer_set")
        => /\ "OCIE1A" \notin TIMSK1
           /\ nreal = 0
           /\ \A i \in 1..Len(stack) : stack[i].fn # "COMPA"

\* the counter has matched OCR1A with the interrupts enabled, a tick was
\* serviced, and timer_set() has not been called yet
C12_Witness ==
  /\ At("main", "run") /\ SREG_I
  /\ nsets = 0 /\ nticks >= 1
  /\ "OCF1A" \in TIFR1
  /\ "OCIE1B" \in TIMSK1

----------------------------------------------------------------------------
\* Claims about the homing routines.

\* the homing routine has enqueued all its moves
HomeEnqueued == routine # "none" /\ hpc \in {"L117", "L119", "L123", "idle"}

\* the routine that ran last has returned
HomeReturned == routine # "none" /\ hpc = "idle"

\* t.axis of a move on the axis of the running routine
MoveTarget(m) == m.t.axis[AxisOf(routine)]

\* C13: with SEARCH_FAST > SEARCH_FEEDRATE a homing routine enqueues
\* exactly two moves, the approach (-1000000 on the MIN side, +1000000 on
\* the MAX side) at SEARCH_FAST with flag 1, then the back-off with the
\* opposite target at SEARCH_FEEDRATE with flag 0 and the same mask;
\* otherwise exactly one approach at SEARCH_FEEDRATE with flag 1.
C13_MoveOrder ==
  /\ routine # "none" => Len(enq) <= 2
  /\ Len(enq) >= 1
       => /\ MoveTarget(enq[1]) = (IF IsMin(routine) THEN -1000000
                                   ELSE 1000000)
          /\ enq[1].flag = 1
          /\ enq[1].t.F = (IF SEARCH_FAST(cfg) > cfg.feedrate
                           THEN SEARCH_FAST(cfg) ELSE cfg.feedrate)
  /\ Len(enq) = 2
       => /\ SEARCH_FAST(cfg) > cfg.feedrate
          /\ MoveTarget(enq[2]) = 0 - MoveTarget(enq[1])
          /\ enq[2].flag = 0
          /\ enq[2].t.F = cfg.feedrate
          /\ enq[2].mask = enq[1].mask
  /\ HomeEnqueued
       => Len(enq) = (IF SEARCH_FAST(cfg) > cfg.feedrate THEN 2 ELSE 1)

\* a MAX side routine has returned after a single slow approach
C13_Witness ==
  /\ HomeReturned /\ ~IsMin(routine)
  /\ Len(enq) = 1 /\ enq[1].t.F = 2000 /\ SEARCH_FAST(cfg) = 600

\* C14: the position is written, and dda_new_startpoint() is called, only
\* after queue_wait() has returned with all moves of the routine enqueued,
\* and then no move is queued or live.
C14_WriteWhenIdle ==
  hpc \in {"L119", "L123"}
    => /\ queue = << >> /\ live = << >>
       /\ Len(enq) = (IF SEARCH_FAST(cfg) > cfg.feedrate THEN 2 ELSE 1)

\* the position is about to be written after two moves were executed, the
\* last one having left the axis elsewhere
C14_Witness ==
  /\ hpc = "L119" /\ Len(enq) = 2
  /\ startpoint[AxisOf(routine)] = 77
  /\ HomePosition(routine, cfg) # 77

\* C15 as stated: the mask passed to enqueue_home() has exactly the bit
\* 2 * axis + side set, axis counting X, Y, Z, U from 0 and side being 0 for
\* MIN and 1 for MAX.
C15_MaskLayout ==
  \A i \in 1..Len(enq) : enq[i].mask = EndstopMask_layout(routine)

\* C16: when a homing routine has returned, startpoint and next_target
\* hold the configured coordinate in micrometres on its axis (0 for the MIN
\* side without a configured minimum), next_target is on every other axis
\* what it was at the call, and so is startpoint.
C16_HomePosition ==
  HomeReturned
    => /\ startpoint[AxisOf(routine)] =
            (IF IsMin(routine)
             THEN (IF cfg.minDefined THEN cfg.min * 100 ELSE 0)
             ELSE cfg.max * 100)
       /\ next_target[AxisOf(routine)] = startpoint[AxisOf(routine)]
       /\ \A a \in Axes \ {AxisOf(routine)} :
             /\ startpoint[a] = entry.sp[a]
             /\ next_target[a] = entry.nt[a]

\* a MIN side routine has returned with the minimum at -0.5 mm, the axes
\* having stood at 12 mm
C16_Witness ==
  /\ HomeReturned /\ IsMin(routine)
  /\ cfg.minDefined /\ cfg.min = -5
  /\ startpoint[AxisOf(routine)] = -500
  /\ \E a \in Axes : startpoint[a] = 12000

\* the configuration of C17
Scenario5 == cfg.accel = 1000 /\ cfg.clearance = 5 /\ cfg.feedrate = 100

\* C17 as stated: with ACCELERATION 1000, ENDSTOP_CLEARANCE 5 and
\* SEARCH_FEEDRATE 100 home_x_negative approaches at the fast search
\* feedrate of about 1897 mm/min.
C17_About1897 ==
  (Scenario5 /\ routine = "home_x_negative" /\ Len(enq) >= 1)
    => (enq[1].t.F >= 1890 /\ enq[1].t.F <= 1900)

\* C17 amended: with ACCELERATION 1000, ENDSTOP_CLEARANCE 5 and
\* SEARCH_FEEDRATE 100 the fast search feedrate is 189 mm/min, which exceeds
\* 100, and home_x_negative enqueues an approach at 189 with flag 1, then a
\* back-off at 100 with flag 0, and sets the position to X_MIN.
C17_TwoPhases ==
  Scenario5
    => /\ SEARCH_FAST(cfg) = 189
       /\ (routine = "home_x_negative" /\ HomeReturned)
            => /\ Len(enq) = 2
               /\ enq[1].t.F = 189 /\ enq[1].flag = 1
               /\ enq[1].t.axis["X"] = -1000000
               /\ enq[2].t.F = 100 /\ enq[2].flag = 0
               /\ enq[2].t.axis["X"] = 1000000
               /\ startpoint["X"] =
                    (IF cfg.minDefined THEN cfg.min * 100 ELSE 0)

C17_Witness ==
  /\ Scenario5 /\ routine = "home_x_negative" /\ HomeReturned
  /\ Len(enq) = 2 /\ enq[1].t.F = 189
  /\ cfg.minDefined /\ startpoint["X"] = -500

----------------------------------------------------------------------------
\* Claims about the I2C driver.

\* byte i was popped from the send buffer into TWDR and handed to the TWI
OnWire(i) == \E k \in 1..Len(wire) : wire[k] = Ev("byte", i)

\* the positions of wire that hold bytes
WireBytes == {k \in 1..Len(wire) : wire[k].ev = "byte"}

\* C18 as stated: every byte i2c_write() has pushed is eventually loaded
\* into TWDR by the TWI interrupt, as long as the bus acknowledges.
C18_NoByteLost ==
  \A i \in 1..MaxWrites :
     (i \in accepted /\ nnacks = 0) ~> (OnWire(i) \/ nnacks > 0)

\* C19: past its wait loop i2c_write() finds no last byte outstanding, so it
\* pushes nothing after a last byte until the TWI interrupt has ended that
\* transmission (buffer drained, i2c_should_end cleared, STOP sent); and two
\* bytes of different transmissions are never on the bus without a STOP and
\* a START between them.
C19_TransmissionsApart ==
  /\ ipc \in {"L465", "L467", "L468", "L469", "L469store", "L473"}
       => (~lastPending /\ i2c_should_end = 0)
  /\ \A j, k \in WireBytes :
        (j < k /\ txOf[wire[j].id] # txOf[wire[k].id])
          => \E p, q \in j..k :
                p < q /\ wire[p].ev = "STOP" /\ wire[q].ev = "START"

\* a byte of the second transmission is sent after the STOP of the first
\* and a new START, having waited for it
C19_Witness ==
  /\ Len(wire) >= 5
  /\ wire[Len(wire)] = Ev("byte", 2) /\ txOf[2] = 2 /\ txOf[1] = 1
  /\ wire[Len(wire) - 1].ev = "START"
  /\ wire[Len(wire) - 2].ev = "STOP"
  /\ wire[Len(wire) - 3] = Ev("byte", 1)

\* C20 as stated: every call of i2c_write() returns.
C20_WriteReturns == (ipc # "idle") ~> (ipc = "idle")

\* C21: a bus error makes the ISR empty the send buffer, clear
\* i2c_should_end and set I2C_ERROR; a call that finds I2C_ERROR set returns
\* without touching the buffer or i2c_should_end; only such a call with
\* last_byte != 0 clears I2C_ERROR; and the first byte pushed after an error
\* is the first byte of a transmission of the caller.
C21_ErrorDrop ==
  /\ [][TWI_error => /\ ~buf_canread'
                      /\ i2c_should_end' = 0
                      /\ "ERROR" \in i2c_state']_vars
  /\ [][(ipc = "L454" /\ ipc' # "L454" /\ "ERROR" \in i2c_state)
          => (ipc' = "idle" /\ UNCHANGED << ring, i2c_should_end >>)]_vars
  /\ [][("ERROR" \in i2c_state /\ "ERROR" \notin i2c_state')
          => (ipc = "L454" /\ ipc' = "idle" /\ last_byte # 0)]_vars
  /\ [][(ipc = "L473" /\ ipc' = "idle" /\ afterError)
          => data \in firsts]_vars

\* a transmission is in progress: START was written to TWCR and the ISR has
\* not sent the STOP condition yet (TWIE is set with START and cleared with
\* STOP)
InTransmission == TWCR_TWIE

\* C22: i2c_busy() is non-zero only while a transmission is in progress; it
\* is zero again once the ISR has sent STOP, after a drained buffer and after
\* an error alike.
C22_BusyOnlyInTransmission == "BUSY" \in i2c_state => InTransmission

\* frames of the step ISR
StepFrames == {i \in 1..Len(stack) : stack[i].fn = "COMPA"}

\* how far a step ISR has come: lines 73, 80, 83, 90 of a real step and
\* lines 73, 93, 96, 103 of a wrap
StepLine(pc) ==
  CASE pc = "L73" -> 1
    [] pc \in {"L80", "L93"} -> 2
    [] pc \in {"L83", "L96"} -> 3
    [] pc \in {"L90", "L103"} -> 4

\* C23: on a real step the step ISR has disabled the step compare interrupt
\* before queue_step() runs; unless a timer_set() call of queue_step() has
\* scheduled a step the interrupt stays disabled, so a step ISR is entered
\* only after timer_set() has armed it; the step ISR only moves forward.
C23_StepDisarmed ==
  /\ [](\A i \in StepFrames :
          (stack[i].pc \in {"L83", "L90"} /\ ~armed)
            => "OCIE1A" \notin TIMSK1)
  /\ []("OCIE1A" \in TIMSK1 => armed)
  /\ [][(Len(stack') > Len(stack) /\ stack'[Len(stack')].fn = "COMPA")
          => (armed /\ StepFrames = {})]_vars
  /\ [][\A i \in StepFrames :
          i <= Len(stack') => StepLine(stack'[i].pc) >= StepLine(stack[i].pc)]_vars

\* a real step whose queue_step() scheduled nothing has returned, the step
\* timer is idle
C23_Witness ==
  /\ Len(stack) = 1
  /\ Top.pc = "run"
  /\ nreal >= 1
  /\ ~armed
  /\ "OCIE1A" \notin TIMSK1
  /\ since > 0

\* C24: when dda_clock() has finished in the tick ISR, no armed step compare
\* match is waiting: a match that came due during dda_clock() was served by
\* the step ISR before.
C24_StepDuringTick ==
  (Top.fn = "COMPB" /\ Top.pc = "L61")
    => ~("OCIE1A" \in TIMSK1 /\ "OCF1A" \in TIFR1)

\* a real step is served on top of a tick ISR that is inside dda_clock()
C24_Witness ==
  /\ Len(stack) >= 3
  /\ stack[Len(stack) - 1].fn = "COMPB"
  /\ stack[Len(stack) - 1].pc = "L59"
  /\ At("COMPA", "L80")

\* invocations of the tick ISR that are active
TickFrames == {i \in 1..Len(stack) : stack[i].fn = "COMPB"}

\* C27: at most two invocations of the tick ISR are active at once.
C27_TickNesting == Cardinality(TickFrames) <= 2

\* C25: the last homing move a routine enqueues before it sets the position
\* has the feedrate SEARCH_FEEDRATE, whether or not there was a fast
\* approach.
C25_LastMoveSlow ==
  HomeEnqueued => (enq # << >> /\ enq[Len(enq)].t.F = cfg.feedrate)

\* a routine with a fast approach has returned: two moves, the first faster
\* than SEARCH_FEEDRATE
C25_Witness ==
  /\ HomeReturned
  /\ Len(enq) = 2
  /\ enq[1].t.F > cfg.feedrate
  /\ enq[2].t.F = cfg.feedrate
  /\ routine = "home_y_positive"

\* the routines home() is to call: the axes in the order X, Y, Z, U, each
\* axis with an endstop pin once, on the MIN side when it has a MIN pin
HomingPlan(p) ==
  LET pick(a, neg, pos) ==
        IF p[a] = {} THEN << >>
        ELSE IF "MIN" \in p[a] THEN << neg >> ELSE << pos >>
  IN  pick("X", "home_x_negative", "home_x_positive")
        \o pick("Y", "home_y_negative", "home_y_positive")
        \o pick("Z", "home_z_negative", "home_z_positive")
        \o pick("U", "home_u_negative", "home_u_positive")

\* C26: home() calls the routines of its plan in order, all of them by the
\* time it returns; when a routine is about to enqueue its first move,
\* nothing of the axes before is queued or moving and their positions are
\* set.
C26_HomeOrder ==
  /\ Len(homed) <= Len(HomingPlan(pins))
  /\ homed = SubSeq(HomingPlan(pins), 1, Len(homed))
  /\ home_pc = "done" => homed = HomingPlan(pins)
  /\ (home_pc # "idle" /\ hpc \in {"L100", "L102", "L107"})
       => /\ queue = << >>
          /\ live = << >>
          /\ \A i \in 1..(Len(homed) - 1) :
                /\ startpoint[AxisOf(homed[i])] = HomePosition(homed[i], cfg)
                /\ next_target[AxisOf(homed[i])] = HomePosition(homed[i], cfg)

\* home() has returned in a build with both X pins, no Y pin, a Z MAX pin
\* and a U MIN pin
C26_Witness ==
  /\ home_pc = "done"
  /\ pins["X"] = {"MIN", "MAX"}
  /\ pins["Y"] = {}
  /\ pins["Z"] = {"MAX"}
  /\ pins["U"] = {"MIN"}
  /\ homed = << "home_x_negative", "home_z_positive", "home_u_negative" >>
  /\ queue = << >>
  /\ live = << >>

====
